---- MODULE Spec2Model ----
(***************************************************************************)
(* Model of bravado_bitjws/client.py: the BitJWSSwaggerClient constructors *)
(* (from_url, from_spec), BitJWSCallableOperation (construct_request,      *)
(* construct_params, __call__) and bitjws_response_callback.               *)
(*                                                                         *)
(* Python values are modelled as strings, dicts as functions whose domain  *)
(* is the set of keys, None as the string "None".  An exception is a       *)
(* record carrying its type and its arguments.                             *)
(***************************************************************************)
EXTENDS Integers, Sequences, FiniteSets, TLC

VARIABLES
    client,         \* the facade built by from_url / from_spec, or NoClient
    wire,           \* what the client's transport has transmitted, in order
    callerHeaders,  \* the dict the caller passes as _request_options['headers']
    given_kwargs,   \* keyword arguments of the construct_request under test
    given_options,  \* its _request_options
    request,        \* the dict the last construct_request returned, or NoRequest
    raised,         \* the exception the last __call__ raised, or NoError
    calls,          \* one record per __call__ made so far
    pending,        \* call ids handed to the transport, response not yet in
    triaged,        \* call ids whose response callback has run
    response        \* outcome of the last bitjws_response_callback, or NoResponse

vars == <<client, wire, callerHeaders, given_kwargs, given_options, request,
          raised, calls, pending, triaged, response>>

(***************************************************************************)
(* Bounds of the model.                                                    *)
(***************************************************************************)
MaxKwargs == 3      \* keyword arguments per call (besides _request_options)
MaxCalls == 2       \* operation calls per behaviour

(***************************************************************************)
(* Python values.                                                          *)
(***************************************************************************)
None == "None"
EmptyDict == [k \in {} |-> None]

\* d[k] = v on a dict
SetItem(d, k, v) == [x \in (DOMAIN d) \cup {k} |-> IF x = k THEN v ELSE d[x]]

NoClient == [built |-> FALSE]
NoRequest == [built |-> FALSE]
NoError == [type |-> "None"]
NoResponse == [kind |-> "none"]

(***************************************************************************)
(* The operation the calls are made on: one Operation of a loaded          *)
(* specification, with two required parameters, two optional parameters    *)
(* with a default, one optional parameter without, in three locations.     *)
(***************************************************************************)
ApiHost == "api.example"
OtherHost == "other.example"

operation ==
    [ operation_id |-> "getWidget",
      http_method  |-> "get",
      path_name    |-> "/widget/{id}",
      api_url      |-> <<"http://api.example/v1", "/">>,
      params |-> <<
        [name |-> "id",    location |-> "path",   required |-> TRUE,
         default |-> None],
        [name |-> "token", location |-> "header", required |-> TRUE,
         default |-> None],
        [name |-> "limit", location |-> "query",  required |-> FALSE,
         default |-> "10"],
        [name |-> "lang",  location |-> "header", required |-> FALSE,
         default |-> "en"],
        [name |-> "tag",   location |-> "query",  required |-> FALSE,
         default |-> None] >>,
      responses |-> {200, 299, 400, 499, 503, 600} ]

ParamNames == {operation.params[i].name : i \in DOMAIN operation.params}

\* names a caller may pass that the operation does not declare
UnknownNames == {"bogus", "extra"}

\* the values a caller passes for a keyword
ValuesOf(name) == CASE name = "limit" -> {"10", "20"}
                    [] name = "lang"  -> {"en"}
                    [] name = "id"    -> {"5"}
                    [] OTHER          -> {"7"}

\* every sequence of distinct elements of S of length at most n
RECURSIVE DistinctSeqs(_, _)
DistinctSeqs(S, n) ==
    IF n = 0 THEN {<<>>}
    ELSE LET shorter == DistinctSeqs(S, n - 1)
         IN  shorter \cup
             {Append(s, x) : <<s, x>> \in
                {<<s, x>> \in shorter \X S :
                    \A i \in DOMAIN s : s[i] # x}}

\* the keyword arguments of one call, in the order iteritems() yields them
RECURSIVE WithValues(_)
WithValues(names) ==
    IF names = <<>> THEN {<<>>}
    ELSE {<<[name |-> Head(names), value |-> v]>> \o rest :
            v \in ValuesOf(Head(names)), rest \in WithValues(Tail(names))}

KwargsInputs ==
    UNION {WithValues(names) :
             names \in DistinctSeqs(ParamNames \cup UnknownNames, MaxKwargs)}

\* the keyword arguments of KwargsInputs that come in the order of NameOrder
NameOrder == <<"id", "token", "limit", "lang", "tag", "bogus", "extra">>
IndexOf(name) == CHOOSE i \in DOMAIN NameOrder : NameOrder[i] = name
OrderedKwargsInputs ==
    {kw \in KwargsInputs :
        \A i \in DOMAIN kw : \A j \in DOMAIN kw :
            i < j => IndexOf(kw[i].name) < IndexOf(kw[j].name)}

\* the _request_options a caller passes; 'headers' is always the one dict
\* the caller owns (callerHeaders), EmptyDict stands for no _request_options
OptionsInputs ==
    { EmptyDict,
      [timeout |-> "3"],
      [headers |-> "callerHeaders"],
      [headers |-> "callerHeaders", connect_timeout |-> "1"] }

(***************************************************************************)
(* bravado_core collaborators, by their contracts.                         *)
(***************************************************************************)
\* str.upper() on the http methods of the specification
upper(s) == CASE s = "get" -> "GET" [] s = "put" -> "PUT" [] OTHER -> s

\* str.rstrip('/'): the url is kept as <<text, trailing slashes>>
rstrip(u) == u[1]

\* Param.has_default()
has_default(param) == param.default # None

\* the wire form of a value at a location (path values are url-quoted)
to_wire(param, value) ==
    IF param.location = "path" THEN "quoted:" \o value ELSE value

\* the dict request['headers'] refers to
HeadersOf(req, callerHdrs) ==
    IF req.headers.ref = "callerHeaders" THEN callerHdrs ELSE req.headers.dict

\* marshal_param(param, value, request): places the value (the declared
\* default when the value is None) at the parameter's location, in place.
\* st is the request under construction and the caller's headers dict.
marshal_param(param, value, st) ==
    LET v == to_wire(param, IF value = None THEN param.default ELSE value)
        req == st.request
    IN  CASE param.location = "path" ->
               [st EXCEPT !.request.url.args = SetItem(@, param.name, v)]
          [] param.location = "query" ->
               [st EXCEPT !.request.params = SetItem(@, param.name, v)]
          [] param.location = "header" ->
               IF req.headers.ref = "callerHeaders"
               THEN [st EXCEPT !.callerHeaders = SetItem(@, param.name, v)]
               ELSE [st EXCEPT !.request.headers.dict =
                                   SetItem(@, param.name, v)]

SwaggerMappingError(kind, name) ==
    [type |-> "SwaggerMappingError", kind |-> kind, name |-> name]

(***************************************************************************)
(* BitJWSCallableOperation.construct_params.  st carries the request under *)
(* construction, the caller's headers dict and the exception raised so     *)
(* far (NoError while none was).                                           *)
(***************************************************************************)
ParamNamed(name) ==
    CHOOSE p \in {operation.params[i] : i \in DOMAIN operation.params} :
        p.name = name

\* kwarg_step that skips a keyword the operation does not declare
kwarg_step_ignoring_unknown(kv, current, st) ==
    IF kv.name \notin current
    THEN st
    ELSE marshal_param(ParamNamed(kv.name), kv.value, st)

\* one turn of the loop over iteritems(op_kwargs); current is the set of
\* names still in current_params
kwarg_step(kv, current, st) ==
    IF kv.name \notin current
    THEN [st EXCEPT !.error = SwaggerMappingError("unknown", kv.name)]
    ELSE marshal_param(ParamNamed(kv.name), kv.value, st)

RECURSIVE marshal_kwargs(_, _, _)
marshal_kwargs(op_kwargs, current, st) ==
    IF op_kwargs = <<>> \/ st.error # NoError
    THEN [st |-> st, current |-> current]
    ELSE marshal_kwargs(Tail(op_kwargs),
                        current \ {Head(op_kwargs).name},
                        kwarg_step(Head(op_kwargs), current, st))

\* remaining_step without the check of remaining_param.required
remaining_step_without_required(remaining_param, st) ==
    IF has_default(remaining_param)
    THEN marshal_param(remaining_param, None, st)
    ELSE st

\* remaining_step that never marshals a default
remaining_step_without_default(remaining_param, st) ==
    IF remaining_param.required
    THEN [st EXCEPT !.error =
                SwaggerMappingError("required", remaining_param.name)]
    ELSE st

\* one turn of the loop over itervalues(current_params)
remaining_step(remaining_param, st) ==
    IF remaining_param.required
    THEN [st EXCEPT !.error =
                SwaggerMappingError("required", remaining_param.name)]
    ELSE IF ~remaining_param.required /\ has_default(remaining_param)
    THEN marshal_param(remaining_param, None, st)
    ELSE st

RECURSIVE check_remaining(_, _, _)
check_remaining(i, current, st) ==
    IF i > Len(operation.params) \/ st.error # NoError THEN st
    ELSE IF operation.params[i].name \in current
    THEN check_remaining(i + 1, current,
                         remaining_step(operation.params[i], st))
    ELSE check_remaining(i + 1, current, st)

construct_params(st, op_kwargs) ==
    LET looped == marshal_kwargs(op_kwargs, ParamNames, st)
    IN  IF looped.st.error # NoError THEN looped.st
        ELSE check_remaining(1, looped.current, looped.st)

(***************************************************************************)
(* BitJWSCallableOperation.construct_request.  request_options is the      *)
(* popped '_request_options' ({} when absent).  The result carries the     *)
(* request (meaningful when no error was raised), the caller's headers     *)
(* dict as the call leaves it, and the exception raised.                   *)
(***************************************************************************)
\* request_options.get('headers', {}): the caller's dict itself, or a new one
get_headers(request_options) ==
    IF "headers" \in DOMAIN request_options
    THEN [ref |-> request_options["headers"], dict |-> EmptyDict]
    ELSE [ref |-> "fresh", dict |-> EmptyDict]

construct_request(op_kwargs, request_options, callerHdrs) ==
    LET url == [base |-> rstrip(operation.api_url),
                path |-> operation.path_name,
                args |-> EmptyDict]
        req == [built   |-> TRUE,
                method  |-> upper(operation.http_method),
                url     |-> url,
                params  |-> EmptyDict,
                headers |-> get_headers(request_options),
                options |-> [o \in (DOMAIN request_options) \cap
                                   {"connect_timeout", "timeout"}
                               |-> request_options[o]]]
    IN  construct_params([request |-> req, callerHeaders |-> callerHdrs,
                          error |-> NoError],
                         op_kwargs)

\* the declared parameters a request holds a value for
Resolved(req, callerHdrs) ==
    {p \in ParamNames :
        LET param == ParamNamed(p)
        IN  CASE param.location = "path"   -> p \in DOMAIN req.url.args
              [] param.location = "query"  -> p \in DOMAIN req.params
              [] param.location = "header" ->
                    p \in DOMAIN HeadersOf(req, callerHdrs)}

RequiredNames ==
    {operation.params[i].name :
        i \in {j \in DOMAIN operation.params : operation.params[j].required}}

(***************************************************************************)
(* BitJWSCallableOperation.__call__: the request is constructed, then      *)
(* handed to http_client.request with the response callback.  handed is    *)
(* the sequence of requests given to the transport by this call.           *)
(***************************************************************************)
\* __call__ that goes on to the transport after construct_request failed
call_handing_anyway(kwargs, options, callerHdrs) ==
    LET built == construct_request(kwargs, options, callerHdrs)
    IN  [raised |-> built.error,
         request |-> IF built.error # NoError THEN NoRequest
                     ELSE built.request,
         callerHeaders |-> built.callerHeaders,
         handed |-> <<built.request>>]

BitJWSCallableOperation_call(kwargs, options, callerHdrs) ==
    LET built == construct_request(kwargs, options, callerHdrs)
    IN  IF built.error # NoError
        THEN [raised |-> built.error, request |-> NoRequest,
              callerHeaders |-> built.callerHeaders, handed |-> <<>>]
        ELSE [raised |-> NoError, request |-> built.request,
              callerHeaders |-> built.callerHeaders,
              handed |-> <<built.request>>]

(***************************************************************************)
(* bitjws and the signing transport.                                       *)
(***************************************************************************)
RawKeys == {"k1", "k2"}         \* keys a caller holds
GeneratedKeys == {"g1", "g2"}   \* keys bitjws.PrivateKey() may generate

privkey_to_wif(private_key) == "wif:" \o private_key
wif_to_privkey(wif) ==
    CHOOSE k \in RawKeys \cup GeneratedKeys : privkey_to_wif(k) = wif

PrivateKey(private_key) == [type |-> "PrivateKey", private_key |-> private_key]
Str(text) == [type |-> "str", value |-> text]
NoneValue == [type |-> "NoneType"]

\* BitJWSRequestsClient(): a transport with no key registered
BitJWSRequestsClient == [type |-> "BitJWSRequestsClient", keys |-> EmptyDict]

\* BitJWSRequestsClient.set_bitjws_key(host, wif): one key per host, a
\* second registration for the host replaces the first
set_bitjws_key(http_client, host, wif) ==
    [http_client EXCEPT !.keys = SetItem(@, host, wif)]

\* the key the transport signs a request to host with
Signer(http_client, host) ==
    IF host \in DOMAIN http_client.keys
    THEN wif_to_privkey(http_client.keys[host])
    ELSE "unsigned"

Transmission(kind, http_client, host) ==
    [kind |-> kind, host |-> host, signer |-> Signer(http_client, host)]

\* urlparse.urlsplit(url).hostname
hostname(url) == url.host

(***************************************************************************)
(* BitJWSSwaggerClient.from_url and from_spec.  generated is the key       *)
(* bitjws.PrivateKey() yields if it is called.                             *)
(***************************************************************************)
\* if privkey is None: ... elif isinstance(privkey, str): ...
resolve_privkey(privkey, generated) ==
    IF privkey.type = "NoneType" THEN PrivateKey(generated)
    ELSE IF privkey.type = "str"
    THEN PrivateKey(wif_to_privkey(privkey.value))
    ELSE privkey

\* if http_client is None: ... set_bitjws_key(host, wif)
resolve_http_client(http_client, url, key) ==
    IF http_client.type = "NoneType"
    THEN set_bitjws_key(BitJWSRequestsClient, hostname(url),
                        privkey_to_wif(key.private_key))
    ELSE http_client

from_spec(origin_url, http_client, privkey, generated) ==
    LET key == resolve_privkey(privkey, generated)
    IN  [built |-> TRUE,
         privkey |-> key,
         host |-> hostname(origin_url),
         http_client |-> resolve_http_client(http_client, origin_url, key)]

\* the result is the client and what loader.load_spec transmitted
from_url(spec_url, http_client, privkey, generated, generated2) ==
    LET key == resolve_privkey(privkey, generated)
        transport == resolve_http_client(http_client, spec_url, key)
    IN  [loaded |-> <<Transmission("load_spec", transport,
                                   hostname(spec_url))>>,
         client |-> from_spec(spec_url, transport, key, generated2)]

SpecUrl == [host |-> ApiHost, path |-> "/swagger.json"]

PrivkeyInputs ==
    {NoneValue} \cup {Str(privkey_to_wif(k)) : k \in RawKeys}
                \cup {PrivateKey(k) : k \in RawKeys}

\* a transport the caller built, with whatever keys the caller registered
SuppliedClients ==
    {[type |-> "BitJWSRequestsClient", keys |-> d] :
        d \in UNION {[hosts -> {privkey_to_wif(k) : k \in RawKeys}] :
                        hosts \in SUBSET {ApiHost, OtherHost}}}

HttpClientInputs == {NoneValue} \cup SuppliedClients

(***************************************************************************)
(* bitjws_response_callback and its bravado collaborators.                 *)
(***************************************************************************)
Statuses == {199, 200, 204, 299, 300, 400, 404, 499, 500, 503, 599, 600}
Bodies == {"json:bad input", "json:widget"}

\* the value a body unmarshals to
decode(body) ==
    CASE body = "json:bad input" -> [reason |-> "bad input"]
      [] body = "json:widget"    -> [reason |-> "widget"]

HTTPError(incoming_response, message, swagger_result) ==
    [type |-> "HTTPError", response |-> incoming_response,
     message |-> message, swagger_result |-> swagger_result]

NoResult == [reason |-> "None"]

\* unmarshal_response: the value, or MatchingResponseNotFound when the
\* operation declares no response for the status
unmarshal_response(incoming_response, op) ==
    IF incoming_response.status_code \in op.responses
    THEN [found |-> TRUE, value |-> decode(incoming_response.body),
          str |-> "None"]
    ELSE [found |-> FALSE, value |-> NoResult,
          str |-> "no matching response"]

\* raise_on_unexpected: HTTPError(response) on a 5XX status
raise_on_unexpected(incoming_response) ==
    IF 500 <= incoming_response.status_code
       /\ incoming_response.status_code <= 599
    THEN HTTPError(incoming_response, None, NoResult)
    ELSE NoError

\* raise_on_expected: HTTPError carrying the value on a non-2XX status
raise_on_expected(incoming_response, swagger_return_value) ==
    IF ~(200 <= incoming_response.status_code
         /\ incoming_response.status_code < 300)
    THEN HTTPError(incoming_response, None, swagger_return_value)
    ELSE NoError

Raise(error, unmarshals) ==
    [kind |-> "raise", error |-> error, value |-> NoResult,
     unmarshals |-> unmarshals]

\* bitjws_response_callback without the raise_on_unexpected call
callback_without_unexpected(incoming_response, op) ==
    LET got == unmarshal_response(incoming_response, op)
    IN  IF ~got.found
        THEN Raise(HTTPError(incoming_response, got.str, NoResult), 1)
        ELSE IF raise_on_expected(incoming_response, got.value) # NoError
        THEN Raise(raise_on_expected(incoming_response, got.value), 1)
        ELSE [kind |-> "return", error |-> NoError,
              value |-> got.value, unmarshals |-> 1]

\* bitjws_response_callback with raise_on_expected given no value
callback_dropping_value(incoming_response, op) ==
    IF raise_on_unexpected(incoming_response) # NoError
    THEN Raise(raise_on_unexpected(incoming_response), 0)
    ELSE LET got == unmarshal_response(incoming_response, op)
         IN  IF ~got.found
             THEN Raise(HTTPError(incoming_response, got.str, NoResult), 1)
             ELSE IF raise_on_expected(incoming_response, NoResult) # NoError
             THEN Raise(raise_on_expected(incoming_response, NoResult), 1)
             ELSE [kind |-> "return", error |-> NoError,
                   value |-> got.value, unmarshals |-> 1]

\* bitjws_response_callback without the except clause
callback_without_except(incoming_response, op) ==
    IF raise_on_unexpected(incoming_response) # NoError
    THEN Raise(raise_on_unexpected(incoming_response), 0)
    ELSE LET got == unmarshal_response(incoming_response, op)
         IN  IF ~got.found
             THEN Raise([type |-> "MatchingResponseNotFound",
                         response |-> incoming_response,
                         message |-> got.str,
                         swagger_result |-> NoResult], 1)
             ELSE IF raise_on_expected(incoming_response, got.value) # NoError
             THEN Raise(raise_on_expected(incoming_response, got.value), 1)
             ELSE [kind |-> "return", error |-> NoError,
                   value |-> got.value, unmarshals |-> 1]

\* bitjws_response_callback without the raise_on_expected call
callback_without_expected(incoming_response, op) ==
    IF raise_on_unexpected(incoming_response) # NoError
    THEN Raise(raise_on_unexpected(incoming_response), 0)
    ELSE LET got == unmarshal_response(incoming_response, op)
         IN  IF ~got.found
             THEN Raise(HTTPError(incoming_response, got.str, NoResult), 1)
             ELSE [kind |-> "return", error |-> NoError,
                   value |-> got.value, unmarshals |-> 1]

\* unmarshals counts the calls of unmarshal_response
bitjws_response_callback(incoming_response, op) ==
    IF raise_on_unexpected(incoming_response) # NoError
    THEN Raise(raise_on_unexpected(incoming_response), 0)
    ELSE LET got == unmarshal_response(incoming_response, op)
         IN  IF ~got.found
             THEN Raise(HTTPError(incoming_response, got.str, NoResult), 1)
             ELSE IF raise_on_expected(incoming_response, got.value) # NoError
             THEN Raise(raise_on_expected(incoming_response, got.value), 1)
             ELSE [kind |-> "return", error |-> NoError,
                   value |-> got.value, unmarshals |-> 1]

(***************************************************************************)
(* Actions.                                                                *)
(***************************************************************************)
\* getWidget(id=5, token=7)
GetWidget == << [name |-> "id", value |-> "5"],
                [name |-> "token", value |-> "7"] >>

\* headers dicts a caller may hold before the first call
CallerHeadersInputs == {EmptyDict, [Accept |-> "json"]}

\* BitJWSSwaggerClient.from_url(spec_url, http_client, privkey=privkey)
FromUrl(http_client, privkey, generated, generated2) ==
    /\ ~client.built
    /\ LET got == from_url(SpecUrl, http_client, privkey, generated,
                           generated2)
       IN  /\ client' = got.client
           /\ wire' = wire \o got.loaded
    /\ UNCHANGED <<callerHeaders, given_kwargs, given_options, request,
                   raised, calls, pending, triaged, response>>

\* BitJWSSwaggerClient.from_spec(spec_dict, origin_url, http_client,
\*                               privkey=privkey)
FromSpec(http_client, privkey, generated) ==
    /\ ~client.built
    /\ client' = from_spec(SpecUrl, http_client, privkey, generated)
    /\ UNCHANGED <<wire, callerHeaders, given_kwargs, given_options, request,
                   raised, calls, pending, triaged, response>>

\* client.<resource>.getWidget(**kwargs, _request_options=options)
Call(kwargs, options) ==
    /\ client.built
    /\ Len(calls) < MaxCalls
    /\ \E did \in {BitJWSCallableOperation_call(kwargs, options,
                                                callerHeaders)} :
       LET id == Len(calls) + 1
           handed == did.handed # <<>>
       IN  /\ request' = did.request
           /\ raised' = did.raised
           /\ callerHeaders' = did.callerHeaders
           /\ calls' = Append(calls,
                  [raised |-> did.raised # NoError,
                   handed |-> handed,
                   resolved |-> IF handed
                                THEN Resolved(did.handed[1],
                                              did.callerHeaders)
                                ELSE {},
                   headers |-> IF handed THEN did.handed[1].headers.ref
                               ELSE "None"])
           /\ wire' = IF handed
                      THEN Append(wire, Transmission("request",
                                      client.http_client, client.host))
                      ELSE wire
           /\ pending' = IF handed THEN pending \cup {id} ELSE pending
    /\ UNCHANGED <<client, given_kwargs, given_options, triaged, response>>

\* the transport completes call id and runs its callback on the response
Respond(id, status_code, body) ==
    /\ id \in pending
    /\ LET incoming_response == [status_code |-> status_code, body |-> body]
       IN  response' = [incoming |-> incoming_response,
                        outcome |-> bitjws_response_callback(
                                        incoming_response, operation)]
    /\ pending' = pending \ {id}
    /\ triaged' = triaged \cup {id}
    /\ UNCHANGED <<client, wire, callerHeaders, given_kwargs, given_options,
                   request, raised, calls>>

\* construct_request(**given_kwargs, _request_options=given_options) alone
ConstructRequest ==
    /\ request = NoRequest
    /\ raised = NoError
    /\ \E built \in {construct_request(given_kwargs, given_options,
                                       callerHeaders)} :
           /\ request' = IF built.error = NoError THEN built.request
                         ELSE NoRequest
           /\ raised' = built.error
           /\ callerHeaders' = built.callerHeaders
    /\ UNCHANGED <<client, wire, given_kwargs, given_options, calls, pending,
                   triaged, response>>

(***************************************************************************)
(* Spec: a client built by from_spec with a key of the caller, operation   *)
(* calls and their responses.                                              *)
(***************************************************************************)
Init ==
    /\ client = from_spec(SpecUrl, NoneValue, Str(privkey_to_wif("k1")), "g1")
    /\ wire = <<>>
    /\ callerHeaders \in CallerHeadersInputs
    /\ given_kwargs = <<>>
    /\ given_options = EmptyDict
    /\ request = NoRequest
    /\ raised = NoError
    /\ calls = <<>>
    /\ pending = {}
    /\ triaged = {}
    /\ response = NoResponse

Next ==
    \/ \E kwargs \in OrderedKwargsInputs, options \in OptionsInputs :
            Call(kwargs, options)
    \/ \E id \in 1..MaxCalls, status_code \in {200, 404, 503} :
            Respond(id, status_code, "json:widget")

Spec == Init /\ [][Next]_vars

(***************************************************************************)
(* SpecTriage: well-formed calls and every response to them.               *)
(***************************************************************************)
NextTriage ==
    \/ \E options \in OptionsInputs : Call(GetWidget, options)
    \/ \E id \in 1..MaxCalls, status_code \in Statuses, body \in Bodies :
            Respond(id, status_code, body)

SpecTriage == Init /\ [][NextTriage]_vars

(***************************************************************************)
(* SpecConstruct: construct_request as a function of its arguments.        *)
(***************************************************************************)
InitConstruct ==
    /\ client = from_spec(SpecUrl, NoneValue, Str(privkey_to_wif("k1")), "g1")
    /\ wire = <<>>
    /\ callerHeaders \in CallerHeadersInputs
    /\ given_kwargs \in KwargsInputs
    /\ given_options \in OptionsInputs
    /\ request = NoRequest
    /\ raised = NoError
    /\ calls = <<>>
    /\ pending = {}
    /\ triaged = {}
    /\ response = NoResponse

NextConstruct == ConstructRequest

SpecConstruct == InitConstruct /\ [][NextConstruct]_vars

(***************************************************************************)
(* SpecFacade: every way of building the client, then calls through it.    *)
(***************************************************************************)
InitFacade ==
    /\ client = NoClient
    /\ wire = <<>>
    /\ callerHeaders = EmptyDict
    /\ given_kwargs = <<>>
    /\ given_options = EmptyDict
    /\ request = NoRequest
    /\ raised = NoError
    /\ calls = <<>>
    /\ pending = {}
    /\ triaged = {}
    /\ response = NoResponse

NextFacade ==
    \/ \E http_client \in HttpClientInputs, privkey \in PrivkeyInputs,
          generated \in GeneratedKeys, generated2 \in GeneratedKeys :
            FromUrl(http_client, privkey, generated, generated2)
    \/ \E http_client \in HttpClientInputs, privkey \in PrivkeyInputs,
          generated \in GeneratedKeys :
            FromSpec(http_client, privkey, generated)
    \/ Call(GetWidget, EmptyDict)

SpecFacade == InitFacade /\ [][NextFacade]_vars

(***************************************************************************)
(* Properties of bitjws_response_callback (SpecTriage).                    *)
(***************************************************************************)
Responded == response # NoResponse
ServerFailure(status_code) == 500 <= status_code /\ status_code <= 599
Success(status_code) == 200 <= status_code /\ status_code <= 299
Declared(status_code) == status_code \in operation.responses

\* C1: a response with a status in 500..599 makes the callback raise the
\* minimal HTTPError (the response only: no message, no payload) and
\* unmarshal_response is not called for it, also when the operation
\* declares a response for that status.
C1_ServerFailureIsMinimal ==
    (Responded /\ ServerFailure(response.incoming.status_code)) =>
        /\ response.outcome.kind = "raise"
        /\ response.outcome.error =
              [type |-> "HTTPError", response |-> response.incoming,
               message |-> None, swagger_result |-> NoResult]
        /\ response.outcome.unmarshals = 0

C1_Witness ==
    /\ Responded
    /\ response.incoming.status_code = 503
    /\ Declared(503)
    /\ response.outcome.kind = "raise"

\* C2: a response with a status outside 500..599 and outside 200..299 for
\* which the operation declares a response makes the callback raise an
\* HTTPError whose swagger_result is the value unmarshal_response gave;
\* the value is not returned.
C2_DocumentedErrorCarriesValue ==
    (/\ Responded
     /\ ~ServerFailure(response.incoming.status_code)
     /\ ~Success(response.incoming.status_code)
     /\ Declared(response.incoming.status_code)) =>
        /\ response.outcome.kind = "raise"
        /\ response.outcome.error.type = "HTTPError"
        /\ response.outcome.error.swagger_result =
              unmarshal_response(response.incoming, operation).value
        /\ response.outcome.error.swagger_result = decode(response.incoming.body)
        /\ response.outcome.value = NoResult

C2_Witness ==
    /\ Responded
    /\ response.incoming.status_code = 400
    /\ response.incoming.body = "json:bad input"
    /\ response.outcome.kind = "raise"
    /\ response.outcome.error.swagger_result = [reason |-> "bad input"]

\* C3: a response with a status outside 500..599 and outside 200..299 for
\* which the operation declares no response makes the callback raise an
\* HTTPError whose message is the text of MatchingResponseNotFound;
\* MatchingResponseNotFound itself does not escape and nothing is returned.
C3_UndocumentedErrorCarriesDiagnostic ==
    (/\ Responded
     /\ ~ServerFailure(response.incoming.status_code)
     /\ ~Success(response.incoming.status_code)
     /\ ~Declared(response.incoming.status_code)) =>
        /\ response.outcome.kind = "raise"
        /\ response.outcome.error.type = "HTTPError"
        /\ response.outcome.error.message = "no matching response"
        /\ response.outcome.value = NoResult

C3_Witness ==
    /\ Responded
    /\ response.incoming.status_code = 404
    /\ ~Declared(404)
    /\ response.outcome.kind = "raise"
    /\ response.outcome.error.message = "no matching response"

\* C4: the callback returns a value exactly when the status is in 200..299
\* and the operation declares a response for it, and the value returned is
\* the one unmarshal_response gave; every other response raises an
\* HTTPError, and no other exception type.
C4_ReturnsExactlyOnDeclaredSuccess ==
    Responded =>
        /\ response.outcome.kind \in {"return", "raise"}
        /\ response.outcome.kind = "return" <=>
              (Success(response.incoming.status_code)
               /\ Declared(response.incoming.status_code))
        /\ response.outcome.kind = "return" =>
              /\ response.outcome.value = decode(response.incoming.body)
              /\ response.outcome.error = NoError
        /\ response.outcome.kind = "raise" =>
              /\ response.outcome.error.type = "HTTPError"
              /\ response.outcome.value = NoResult

C4_Witness ==
    /\ Responded
    /\ response.incoming.status_code = 200
    /\ response.outcome.kind = "return"
    /\ response.outcome.value = [reason |-> "widget"]

(***************************************************************************)
(* Properties of construct_request (SpecConstruct).                        *)
(***************************************************************************)
KwNames(kwargs) == {kwargs[i].name : i \in DOMAIN kwargs}
Applied == request # NoRequest \/ raised # NoError

\* C5: when the keyword arguments omit a required parameter, whichever it
\* is and whatever else is passed, construct_request raises
\* SwaggerMappingError and returns no request.
C5_MissingRequiredRaises ==
    (Applied /\ \E p \in {"id", "token"} : p \notin KwNames(given_kwargs)) =>
        /\ raised.type = "SwaggerMappingError"
        /\ request = NoRequest

C5_Witness ==
    /\ Applied
    /\ KwNames(given_kwargs) = {"id", "limit", "tag"}
    /\ raised = [type |-> "SwaggerMappingError", kind |-> "required",
                 name |-> "token"]

\* C6 as claimed: when the keyword arguments hold a name the operation
\* does not declare, construct_request raises a SwaggerMappingError that
\* names that keyword, whatever the other arguments are.
C6_NamesEveryUnknownKeyword ==
    Applied =>
        \A i \in DOMAIN given_kwargs :
            given_kwargs[i].name \notin {"id", "token", "limit", "lang", "tag"}
                => raised = [type |-> "SwaggerMappingError",
                             kind |-> "unknown",
                             name |-> given_kwargs[i].name]

\* the first keyword, in the order of iteration, that is not declared
FirstUnknown(kwargs) ==
    kwargs[CHOOSE i \in DOMAIN kwargs :
              /\ kwargs[i].name \notin {"id", "token", "limit", "lang", "tag"}
              /\ \A j \in 1..(i - 1) :
                    kwargs[j].name \in {"id", "token", "limit", "lang", "tag"}
          ].name

\* C6, amended: when the keyword arguments hold a name the operation does
\* not declare, construct_request raises a SwaggerMappingError that names
\* the first such keyword in the order of iteration (so the keyword itself
\* when it is the only one), and returns no request.
C6_NamesFirstUnknownKeyword ==
    (Applied /\ KwNames(given_kwargs) \ {"id", "token", "limit", "lang", "tag"}
                  # {}) =>
        /\ raised = [type |-> "SwaggerMappingError", kind |-> "unknown",
                     name |-> FirstUnknown(given_kwargs)]
        /\ request = NoRequest

C6_Witness ==
    /\ Applied
    /\ Len(given_kwargs) = 3
    /\ given_kwargs[1].name = "id"
    /\ given_kwargs[2].name = "extra"
    /\ given_kwargs[3].name = "bogus"
    /\ raised = [type |-> "SwaggerMappingError", kind |-> "unknown",
                 name |-> "extra"]

InsertAt(seq, k, x) ==
    SubSeq(seq, 1, k) \o <<x>> \o SubSeq(seq, k + 1, Len(seq))

\* C7: for a parameter that is not required and is omitted: if it has a
\* default, the call gives what the same call with the default passed
\* explicitly (at any place among the keywords) gives: the same request,
\* the same headers, the same exception; if it has no default, the request
\* holds nothing for it.
C7_OmittedDefaultEqualsExplicit ==
    [][\A i \in DOMAIN operation.params :
         LET p == operation.params[i]
         IN  (~p.required /\ p.name \notin KwNames(given_kwargs)) =>
               IF p.default # None
               THEN \A k \in 0..Len(given_kwargs) :
                      LET explicit ==
                            construct_request(
                                InsertAt(given_kwargs, k,
                                    [name |-> p.name, value |-> p.default]),
                                given_options, callerHeaders)
                      IN  /\ explicit.error = raised'
                          /\ raised' = NoError =>
                                /\ explicit.request = request'
                                /\ explicit.callerHeaders = callerHeaders'
               ELSE request' # NoRequest =>
                      /\ p.name \notin DOMAIN request'.params
                      /\ p.name \notin DOMAIN request'.url.args
                      /\ p.name \notin DOMAIN request'.headers.dict
                      /\ p.name \in DOMAIN callerHeaders'
                            => p.name \in DOMAIN callerHeaders
      ]_vars

C7_Witness ==
    /\ request # NoRequest
    /\ KwNames(given_kwargs) = {"id", "token"}
    /\ request.params = [limit |-> "10"]
    /\ request.headers.ref = "callerHeaders"
    /\ callerHeaders["lang"] = "en"
    /\ "tag" \notin DOMAIN request.params

(***************************************************************************)
(* Properties of __call__ (Spec).                                          *)
(***************************************************************************)
Handed == {i \in DOMAIN calls : calls[i].handed}

\* C8: a call reaches the transport only when construct_request succeeded,
\* and the request it hands over holds every required parameter; a call
\* whose construction raised SwaggerMappingError raises it to the caller,
\* transmits nothing, is never in flight and never has its callback run.
C8_TransportOnlyAfterConstruction ==
    /\ \A i \in DOMAIN calls :
          /\ calls[i].handed <=> ~calls[i].raised
          /\ calls[i].handed => {"id", "token"} \subseteq calls[i].resolved
          /\ calls[i].raised => i \notin pending \cup triaged
    /\ Len(wire) = Cardinality(Handed)
    /\ pending \cup triaged = Handed
    /\ (calls # <<>> /\ calls[Len(calls)].raised) =>
          /\ raised.type = "SwaggerMappingError"
          /\ request = NoRequest
    /\ (calls # <<>> /\ ~calls[Len(calls)].raised) =>
          /\ raised = NoError
          /\ request # NoRequest

C8_Witness ==
    /\ Len(calls) = 2
    /\ calls[1].raised
    /\ calls[2].handed
    /\ triaged = {2}
    /\ Len(wire) = 1

\* C10: construct_request leaves the caller's headers dict as it was, and
\* no two requests built from the same _request_options share it.
C10_CallerHeadersUntouched ==
    [][/\ callerHeaders' = callerHeaders
       /\ Cardinality({i \in DOMAIN calls' :
                          calls'[i].headers = "callerHeaders"}) <= 1
      ]_vars

(***************************************************************************)
(* Properties of from_url and from_spec (SpecFacade).                      *)
(***************************************************************************)
\* C9: whatever privkey and http_client the caller passes, every request
\* the client's transport transmits (the fetch of the specification, the
\* operation calls) is signed with the one key registered for the host of
\* the specification, which is the key resolved from the privkey argument.
C9_TransmissionsSignedByResolvedKey ==
    client.built =>
        \A i \in DOMAIN wire :
            /\ wire[i].host = "api.example"
            /\ wire[i].signer = client.privkey.private_key

====
